---- MODULE Spec2Model ----
(***************************************************************************)
(* flask-network-logging: the log-shipping handlers (CloudWatchHandler,    *)
(* AzureMonitorHandler, IBMCloudLogHandler, OCILoggingHandler) and the     *)
(* extension binders that attach them to loggers.                          *)
(*                                                                         *)
(* Spec       the emission path of one handler instance (emit and the      *)
(*            transport it calls), one record at a time.                   *)
(* SpecSetup  the extension binder of one extension instance (init_app,    *)
(*            _setup_logging, _configure_logger) and the loggers it        *)
(*            configures.                                                  *)
(* SpecConc   two threads that call emit of one CloudWatchHandler          *)
(*            directly, without the lock of logging.Handler.handle.        *)
(* SpecDirect the binders of all six extensions (Graylog and GCP too)      *)
(*            next to handlers the application attaches itself.            *)
(* SpecEnvelope  the envelope builders of the handlers and _map_log_level  *)
(*            applied to one log record.                                   *)
(* SpecApps   one extension instance and two Flask applications: init_app  *)
(*            on either, _setup_logging on the bound one, logging.         *)
(* SpecLevel  the log level init_app of GraylogExtension and               *)
(*            GCPLogExtension resolves from constructor, argument, config. *)
(* SpecPackage  the names the package flask_network_logging exports.       *)
(***************************************************************************)
EXTENDS Integers, Sequences, FiniteSets, TLC

\* ------------------------------------------------------------------ bounds
MaxEmits == 3       \* records emitted on the handler in one behaviour
MaxDepth == 3       \* nested _send_log_event frames the interpreter allows
NThreads == 2       \* application threads that log through the handler
MaxAdditional == 1  \* names in additional_logs
MaxConfigure == 3   \* _configure_logger invocations in one behaviour
MaxDirect == 1      \* handlers the application constructs and attaches itself

\* --------------------------------------------------------------- constants
None == "None"
Tokens == {"T1", "T2"}                       \* opaque continuation tokens
OptTokens == Tokens \cup {None}
StatusCodes == {200, 201, 202, 204, 400, 500} \* HTTP statuses a server may give
Threads == 1..NThreads
HandlerKinds == {"aws", "azure", "ibm", "oci"}
\* the extensions that build one handler of a library's class for all loggers
SingleKinds == {"graylog", "gcp"}
ExtensionKinds == HandlerKinds \cup SingleKinds
AppLogger == "app"                           \* app.logger
LibLoggers == {"lib"}                        \* logging.getLogger(name)
Loggers == {AppLogger} \cup LibLoggers
\* values of *_ENVIRONMENT; for Graylog and GCP values of app.env
Envs(k) == IF k \in SingleKinds THEN {"development", "production", "Production"}
           ELSE {"development", "production", k}
EnableMiddleware == TRUE                     \* enable_middleware: bool = True
LogLevel == 20                               \* self.log_level (logging.INFO)
StreamKinds == {"console", "hostStream"}     \* instances of StreamHandler

VARIABLES
    \* ---- one handler instance (Spec)
    hkind,          \* which handler class the instance is
    hsdk,           \* the module-level requests / oci import succeeded
    keyOk,          \* Azure: workspace_key is valid base64
    sequence_token, \* CloudWatchHandler.sequence_token
    pc,             \* per thread: position inside emit
    rec,            \* per thread: id of the record being emitted (0: none)
    built,          \* per thread: the envelope of this emit was built
    payload,        \* per thread: records in logEvents / lines / log_data / entries
    kwTok,          \* per thread: kwargs["sequenceToken"] (None: key absent)
    depth,          \* per thread: active _send_log_event frames
    hist,           \* per thread: responses to this emit's network calls
    outcome,        \* per thread: how the transport call of emit ended
    herr,           \* per thread: handleError calls made by this emit
    ret,            \* per thread: how emit ended for its caller
    nextRec,        \* id of the next record
    lastNext,       \* nextSequenceToken of the most recent successful response
    staleSince,     \* an InvalidSequenceTokenException came after that response
    dropped,        \* records whose emit ended in handleError
    \* ---- one extension instance and the loggers (SpecSetup)
    ekind,          \* which extension class the instance is
    additional_logs,\* self.additional_logs
    appCfg,         \* app.config: the gate and the identifiers
    ext,            \* the extension's fields
    handlers,       \* per logger: logger.handlers
    level,          \* per logger: logger.level
    calls,          \* _configure_logger invocations so far
    firstSetupFull, \* the one setup so far ran with production gate and full credentials
    last,           \* the last call on the extension or a logger, and what it did
    esdk,           \* the backend's client library could be imported (boto3 / requests / oci)
    \* ---- one record and its envelope (SpecEnvelope)
    bkind,          \* which handler class builds the envelope
    fmt,            \* the format string of the handler's formatter
    record,         \* the LogRecord: levelname, args and the extra attributes
    bpc,            \* what was done with the record
    message,        \* self.format(record)
    envelope,       \* log_event / log_data / log_line / log_entry
    mapped,         \* the return value of _map_log_level
    \* ---- a second application and the extension's log level (SpecApps, SpecLevel)
    boundApp,       \* which application self.app is, when the extension has one
    app2,           \* the logger of the second application: handlers and level
    ctor_level,     \* log_level as given to the constructor
    cfg_level,      \* app.config's GRAYLOG_LOG_LEVEL / GCP_LOG_LEVEL (<<>>: no such key)
    log_level,      \* self.log_level
    param_level,    \* log_level as given to the last init_app
    inits,          \* init_app calls that resolved the level so far
    \* ---- a module that imports from the package (SpecPackage)
    namespace,      \* the names the importing module has bound, each to its class
    import_error    \* the name whose import raised ImportError (None: none did)

hvars == <<hkind, hsdk, keyOk, sequence_token, pc, rec, built, payload, kwTok,
           depth, hist, outcome, herr, ret, nextRec, lastNext, staleSince,
           dropped>>

evars == <<ekind, additional_logs, appCfg, ext, handlers, level, calls,
           firstSetupFull, last, esdk>>

bvars == <<bkind, fmt, record, bpc, message, envelope, mapped>>

avars == <<boundApp, app2, ctor_level, cfg_level, log_level, param_level,
           inits, namespace, import_error>>

vars == <<hvars, evars, avars, bvars, avars>>

\* ---------------------------------------------------------------- backend
Resp(k, n, s) == [kind |-> k, next |-> n, status |-> s]

\* what one network call can come back with, per backend
BackendResponses(k) ==
    IF k = "aws"
    THEN {Resp("ok", n, 0) : n \in OptTokens}
         \cup {Resp("InvalidSequenceTokenException", None, 0),
               Resp("ClientError", None, 0),
               Resp("transport", None, 0)}
    ELSE IF k = "oci"
    THEN {Resp("ok", None, 0), Resp("ServiceError", None, 0),
          Resp("transport", None, 0)}
    ELSE {Resp("http", None, s) : s \in StatusCodes}
         \cup {Resp("transport", None, 0)}

\* ---------------------------------------------------------- pure helpers
\* `if response.status_code not in [200, 202]: raise`
AcceptedStatusLoose == {200, 201, 202, 204}
AcceptedStatus == {200, 202}

\* the transport call returned without raising
Delivered(k, r) ==
    IF k \in {"azure", "ibm"}
    THEN r.kind = "http" /\ r.status \in AcceptedStatus
    ELSE r.kind = "ok"

\* the failure is answered by another attempt
RetriesAlways(k, r) ==
    \/ k = "aws" /\ r.kind = "InvalidSequenceTokenException"
    \/ k \in {"azure", "ibm"} /\ r.kind = "http" /\ r.status >= 500
    \/ k = "oci" /\ r.kind = "ServiceError"
Retries(k, r) == k = "aws" /\ r.kind = "InvalidSequenceTokenException"

\* CloudWatchHandler.sequence_token after a response
NextTokenKeepStale(tok, r) ==
    IF r.kind = "ok" THEN r.next ELSE tok
NextTokenClearOnFailure(tok, r) ==
    IF r.kind = "ok" THEN r.next ELSE None
NextToken(tok, r) ==
    IF r.kind = "ok" THEN r.next
    ELSE IF r.kind = "InvalidSequenceTokenException" THEN None
    ELSE tok

\* the steps of the transport before the network call
PrepareFails(k, sdk, key, d) ==
    IF d > MaxDepth THEN TRUE                 \* RecursionError
    ELSE IF k = "aws" THEN FALSE
    ELSE IF k = "azure" THEN ~sdk \/ ~key     \* ImportError, binascii.Error
    ELSE ~sdk                                 \* ImportError

\* logging.Handler.handle holds the handler lock around emit
Serial(t) == \A u \in Threads \ {t} : pc[u] = "idle"

\* ------------------------------------------------------------------- Init
HandlerInit ==
    /\ hkind \in HandlerKinds
    /\ hsdk \in BOOLEAN
    /\ keyOk \in BOOLEAN
    /\ (hkind = "aws" => hsdk /\ keyOk)
    /\ (hkind \in {"ibm", "oci"} => keyOk)
    /\ (~hsdk => keyOk)            \* without requests the key is never decoded
    /\ sequence_token = None
    /\ pc = [t \in Threads |-> "idle"]
    /\ rec = [t \in Threads |-> 0]
    /\ built = [t \in Threads |-> FALSE]
    /\ payload = [t \in Threads |-> <<>>]
    /\ kwTok = [t \in Threads |-> None]
    /\ depth = [t \in Threads |-> 0]
    /\ hist = [t \in Threads |-> <<>>]
    /\ outcome = [t \in Threads |-> "none"]
    /\ herr = [t \in Threads |-> 0]
    /\ ret = [t \in Threads |-> "none"]
    /\ nextRec = 1
    /\ lastNext = None
    /\ staleSince = FALSE
    /\ dropped = {}

\* no extension instance: the handler was constructed by hand
NoLast == [op |-> "none", logger |-> AppLogger, skipped |-> FALSE,
           raised |-> FALSE, configured |-> {}, devGate |-> FALSE,
           emits |-> 0, initHow |-> "none", initError |-> "none",
           importErrors |-> 0, middleware |-> FALSE,
           before |-> [l \in Loggers |-> <<>>],
           levelBefore |-> [l \in Loggers |-> 0]]
EmptyConfig == [env |-> "development", id |-> FALSE, id2 |-> FALSE]
\* of self.config only the identifier is read again after the call that
\* stored it (OCI_LOG_ID in _configure_logger); {} has no identifier
NewExt == [app |-> FALSE, config |-> [id |-> FALSE], client |-> FALSE,
           ident1 |-> FALSE, ident2 |-> FALSE, logging_setup |-> FALSE]

ExtAbsent ==
    /\ ekind = "aws"
    /\ additional_logs = <<>>
    /\ appCfg = EmptyConfig
    /\ ext = NewExt
    /\ handlers = [l \in Loggers |-> <<>>]
    /\ level = [l \in Loggers |-> 0]
    /\ calls = 0
    /\ firstSetupFull = FALSE
    /\ last = NoLast
    /\ esdk = TRUE

\* a Python value: its type and its text
V(t, v) == [t |-> t, v |-> v]
NoneV == V("NoneType", "None")

NoRecord == [levelname |-> "INFO", args |-> NoneV, extras |-> <<>>]
NoEnvelope == [raised |-> FALSE, top |-> <<>>, hasNested |-> FALSE,
               nested |-> <<>>]

\* no record is being turned into an envelope
BuilderAbsent ==
    /\ bkind = "aws"
    /\ fmt = "%(message)s"
    /\ record = NoRecord
    /\ bpc = "absent"
    /\ message = ""
    /\ envelope = NoEnvelope
    /\ mapped = ""

\* one application only, and no log level under resolution
NoLogger == [handlers |-> <<>>, level |-> 0]
SecondAppAbsent == boundApp = 1 /\ app2 = NoLogger
LevelAbsent ==
    /\ ctor_level = LogLevel /\ cfg_level = <<>> /\ log_level = LogLevel
    /\ param_level = LogLevel /\ inits = 0
\* nothing was imported from the package by name yet
PackageInit == namespace = <<>> /\ import_error = None
AppsAbsent == SecondAppAbsent /\ LevelAbsent /\ PackageInit

Init == HandlerInit /\ ExtAbsent /\ BuilderAbsent /\ AppsAbsent

\* ---------------------------------------------------------------- actions
\* emit, up to the transport call: self.format(record) and the envelope
emit_begin(t) ==
    /\ pc[t] = "idle"
    /\ nextRec <= MaxEmits
    /\ \E fmtOk \in BOOLEAN, buildOk \in BOOLEAN :
        /\ rec' = [rec EXCEPT ![t] = nextRec]
        /\ nextRec' = nextRec + 1
        /\ built' = [built EXCEPT ![t] = fmtOk /\ buildOk]
        /\ IF fmtOk /\ buildOk
           THEN /\ payload' = [payload EXCEPT ![t] = <<nextRec>>]
                /\ depth' = [depth EXCEPT ![t] = 1]
                /\ pc' = [pc EXCEPT ![t] = "send"]
           ELSE /\ pc' = [pc EXCEPT ![t] = "fail"]
                /\ UNCHANGED <<payload, depth>>
    /\ UNCHANGED <<evars, bvars, avars, hkind, hsdk, keyOk, sequence_token, kwTok, hist, outcome,
                   herr, ret, lastNext, staleSince, dropped>>

\* emit as the logging framework calls it for a logged record
emit(t) == Serial(t) /\ emit_begin(t)

\* handler.emit(record) called by the thread itself: nothing is locked
emit_direct_locked(t) == Serial(t) /\ emit_begin(t)
emit_direct(t) == emit_begin(t)

\* entry of _send_log_event / _send_log_data / _send_log_entry: the request
send_prepare(t) ==
    /\ pc[t] = "send"
    /\ IF PrepareFails(hkind, hsdk, keyOk, depth[t])
       THEN /\ pc' = [pc EXCEPT ![t] = "fail"]
            /\ outcome' = [outcome EXCEPT ![t] = "raised"]
            /\ UNCHANGED kwTok
       ELSE /\ pc' = [pc EXCEPT ![t] = "call"]
            /\ kwTok' = [kwTok EXCEPT ![t] =
                            IF hkind = "aws" THEN sequence_token ELSE None]
            /\ UNCHANGED outcome
    /\ UNCHANGED <<evars, bvars, avars, hkind, hsdk, keyOk, sequence_token, rec, built, payload,
                   depth, hist, herr, ret, nextRec, lastNext, staleSince,
                   dropped>>

\* put_log_events / requests.post / put_logs: one network call
network_call(t) ==
    /\ pc[t] = "call"
    /\ \E r \in BackendResponses(hkind) :
        /\ hist' = [hist EXCEPT ![t] = Append(@, r)]
        /\ lastNext' = IF r.kind = "ok" THEN r.next ELSE lastNext
        /\ staleSince' = IF r.kind = "ok" THEN FALSE
                         ELSE IF r.kind = "InvalidSequenceTokenException"
                         THEN TRUE ELSE staleSince
    /\ pc' = [pc EXCEPT ![t] = "resp"]
    /\ UNCHANGED <<evars, bvars, avars, hkind, hsdk, keyOk, sequence_token, rec, built, payload,
                   kwTok, depth, outcome, herr, ret, nextRec, dropped>>

\* what the transport does with the response
send_response(t) ==
    /\ pc[t] = "resp"
    /\ LET r == hist[t][Len(hist[t])] IN
        /\ sequence_token' = IF hkind = "aws"
                             THEN NextToken(sequence_token, r)
                             ELSE sequence_token
        /\ IF Delivered(hkind, r)
           THEN /\ pc' = [pc EXCEPT ![t] = "ok"]
                /\ outcome' = [outcome EXCEPT ![t] = "ok"]
                /\ UNCHANGED depth
           ELSE IF Retries(hkind, r)
           THEN /\ pc' = [pc EXCEPT ![t] = "send"]
                /\ depth' = [depth EXCEPT ![t] = @ + 1]
                /\ UNCHANGED outcome
           ELSE /\ pc' = [pc EXCEPT ![t] = "fail"]
                /\ outcome' = [outcome EXCEPT ![t] = "raised"]
                /\ UNCHANGED depth
    /\ UNCHANGED <<evars, bvars, avars, hkind, hsdk, keyOk, rec, built, payload, kwTok, hist,
                   herr, ret, nextRec, lastNext, staleSince, dropped>>

\* the end of emit: `except Exception: self.handleError(record)`
emit_except_reraise(t) ==
    /\ pc[t] \in {"ok", "fail"}
    /\ pc' = [pc EXCEPT ![t] = "done"]
    /\ ret' = [ret EXCEPT ![t] = IF pc[t] = "fail" THEN "raised" ELSE "returned"]
    /\ UNCHANGED <<evars, bvars, avars, hkind, hsdk, keyOk, sequence_token, rec, built, payload,
                   kwTok, depth, hist, outcome, herr, nextRec, lastNext,
                   staleSince, dropped>>
emit_except(t) ==
    /\ pc[t] \in {"ok", "fail"}
    /\ pc' = [pc EXCEPT ![t] = "done"]
    /\ ret' = [ret EXCEPT ![t] = "returned"]
    /\ IF pc[t] = "fail"
       THEN /\ herr' = [herr EXCEPT ![t] = @ + 1]
            /\ dropped' = dropped \cup {rec[t]}
       ELSE UNCHANGED <<herr, dropped>>
    /\ UNCHANGED <<evars, bvars, avars, hkind, hsdk, keyOk, sequence_token, rec, built, payload,
                   kwTok, depth, hist, outcome, nextRec, lastNext, staleSince>>

\* emit has returned; its frame and locals are gone
emit_return_keeping(t) ==
    /\ pc[t] = "done"
    /\ pc' = [pc EXCEPT ![t] = "idle"]
    /\ rec' = [rec EXCEPT ![t] = 0]
    /\ built' = [built EXCEPT ![t] = FALSE]
    /\ kwTok' = [kwTok EXCEPT ![t] = None]
    /\ depth' = [depth EXCEPT ![t] = 0]
    /\ hist' = [hist EXCEPT ![t] = <<>>]
    /\ outcome' = [outcome EXCEPT ![t] = "none"]
    /\ herr' = [herr EXCEPT ![t] = 0]
    /\ ret' = [ret EXCEPT ![t] = "none"]
    /\ UNCHANGED <<evars, bvars, avars, hkind, hsdk, keyOk, sequence_token, nextRec, lastNext,
                   staleSince, dropped, payload>>
emit_return(t) ==
    /\ pc[t] = "done"
    /\ pc' = [pc EXCEPT ![t] = "idle"]
    /\ rec' = [rec EXCEPT ![t] = 0]
    /\ built' = [built EXCEPT ![t] = FALSE]
    /\ payload' = [payload EXCEPT ![t] = <<>>]
    /\ kwTok' = [kwTok EXCEPT ![t] = None]
    /\ depth' = [depth EXCEPT ![t] = 0]
    /\ hist' = [hist EXCEPT ![t] = <<>>]
    /\ outcome' = [outcome EXCEPT ![t] = "none"]
    /\ herr' = [herr EXCEPT ![t] = 0]
    /\ ret' = [ret EXCEPT ![t] = "none"]
    /\ UNCHANGED <<evars, bvars, avars, hkind, hsdk, keyOk, sequence_token, nextRec, lastNext,
                   staleSince, dropped>>

Next ==
    \/ \E t \in Threads : emit(t)
    \/ \E t \in Threads : send_prepare(t)
    \/ \E t \in Threads : network_call(t)
    \/ \E t \in Threads : send_response(t)
    \/ \E t \in Threads : emit_except(t)
    \/ \E t \in Threads : emit_return(t)

Spec == Init /\ [][Next]_vars

\* one CloudWatchHandler whose emit is called directly by two of the threads
InitConc == Init /\ hkind = "aws"

Racers == {t \in Threads : t <= 2}

NextConc ==
    \/ \E t \in Racers : emit_direct(t)
    \/ \E t \in Racers : send_prepare(t)
    \/ \E t \in Racers : network_call(t)
    \/ \E t \in Racers : send_response(t)
    \/ \E t \in Racers : emit_except(t)
    \/ \E t \in Racers : emit_return(t)

SpecConc == InitConc /\ [][NextConc]_vars

\* ====================================================== extension binder
\* the app.config values an application can hold
AppConfigs(k) ==
    {c \in [env : Envs(k), id : BOOLEAN, id2 : BOOLEAN] :
        /\ k \in {"ibm", "oci"} => c.id2
        /\ k \in SingleKinds => (c.id /\ c.id2)}

\* sequences of distinct names, as additional_logs
DistinctSeqs(S, n) ==
    {<<>>} \cup
    (IF n >= 1 THEN {<<a>> : a \in S} ELSE {}) \cup
    (IF n >= 2 THEN {p \in S \X S : p[1] # p[2]} ELSE {})

Net(hs) == Cardinality({i \in DOMAIN hs : hs[i] = "net"})
\* handlers of the backend class that the application attached itself
Direct(hs) == Cardinality({i \in DOMAIN hs : hs[i] = "direct"})
Stream(hs) == Cardinality({i \in DOMAIN hs : hs[i] \in StreamKinds})

\* `environment not in [<backend>, "production"] and not config.get(<id>)`
GateSkipsOnlyUnknownEnv(k, cfg) ==
    cfg.env \notin {k, "production", "development"} /\ ~cfg.id
GateSkips(k, cfg) == cfg.env \notin {k, "production"} /\ ~cfg.id

\* the condition under which _configure_logger builds the network handler
NetworkReadyClientOnly(k, x) ==
    IF k \in {"aws", "oci"} THEN x.client ELSE x.ident1
NetworkReady(k, x) ==
    IF k = "aws" THEN x.client /\ x.ident1 /\ x.ident2
    ELSE IF k = "azure" THEN x.ident1 /\ x.ident2
    ELSE IF k = "ibm" THEN x.ident1
    ELSE x.client /\ x.config.id

\* `any(isinstance(h, logging.StreamHandler) for h in handlers)`
HasStreamHandlerNever(hs) == FALSE
HasStreamHandlerOwnOnly(hs) == \E i \in DOMAIN hs : hs[i] = "console"
HasStreamHandler(hs) == \E i \in DOMAIN hs : hs[i] \in StreamKinds

\* _configure_logger(logger, level) on the logger state st; ctorOk: nothing
\* inside its try block raised
ConfigureLoggerReplacing(k, x, st, l, ctorOk) ==
    LET h0 == <<>>
        h1 == IF NetworkReady(k, x) /\ ctorOk THEN Append(h0, "net") ELSE h0
        h2 == IF HasStreamHandler(h1) THEN h1 ELSE Append(h1, "console")
    IN [handlers |-> [st.handlers EXCEPT ![l] = h2],
        level |-> [st.level EXCEPT ![l] = LogLevel],
        calls |-> st.calls + 1,
        configured |-> st.configured \cup {l}]
ConfigureLogger(k, x, st, l, ctorOk) ==
    LET h0 == st.handlers[l]
        h1 == IF NetworkReady(k, x) /\ ctorOk THEN Append(h0, "net") ELSE h0
        h2 == IF HasStreamHandler(h1) THEN h1 ELSE Append(h1, "console")
    IN [handlers |-> [st.handlers EXCEPT ![l] = h2],
        level |-> [st.level EXCEPT ![l] = LogLevel],
        calls |-> st.calls + 1,
        configured |-> st.configured \cup {l}]

\* the app logger, then `for logger_name in self.additional_logs`
RECURSIVE ConfigureAll(_, _, _, _, _)
ConfigureAll(k, x, st, ls, ctor) ==
    IF ls = <<>> THEN st
    ELSE ConfigureAll(k, x, ConfigureLogger(k, x, st, Head(ls), ctor),
                      Tail(ls), ctor)

\* logger.addHandler(log_handler) and logger.setLevel(self.log_level) for the
\* app logger, then for each name in additional_logs
RECURSIVE AttachAll(_, _, _)
AttachAll(st, ls, h) ==
    IF ls = <<>> THEN st
    ELSE AttachAll([st EXCEPT !.handlers[Head(ls)] = Append(@, h),
                              !.level[Head(ls)] = LogLevel],
                   Tail(ls), h)

\* str.lower()
Lower(e) == IF e = "Production" THEN "production" ELSE e

\* _setup_logging of GraylogExtension and GCPLogExtension: app.env is compared
\* with the configured environment (default "production")
SetupSingleHandlerCaseSensitive(k, x, cfg, st, ls, ctor, sdk) ==
    IF ~x.app
    THEN [x |-> x, st |-> st, skipped |-> FALSE, raised |-> TRUE, mw |-> FALSE]
    ELSE IF x.logging_setup
    THEN [x |-> x, st |-> st, skipped |-> FALSE, raised |-> FALSE, mw |-> FALSE]
    ELSE LET x1 == [x EXCEPT !.logging_setup = TRUE]
             matched == cfg.env = "production"
             made == sdk /\ ctor
         IN IF k = "graylog" /\ matched /\ ~made
            THEN [x |-> x1, st |-> st, skipped |-> FALSE, raised |-> TRUE,
                  mw |-> FALSE]
            ELSE [x |-> x1,
                  st |-> AttachAll(st, <<AppLogger>> \o ls,
                                   IF matched /\ made THEN "net" ELSE "console"),
                  skipped |-> FALSE, raised |-> FALSE,
                  mw |-> (k = "graylog" /\ EnableMiddleware)]
SetupSingleHandler(k, x, cfg, st, ls, ctor, sdk) ==
    IF ~x.app                                             \* RuntimeError
    THEN [x |-> x, st |-> st, skipped |-> FALSE, raised |-> TRUE, mw |-> FALSE]
    ELSE IF x.logging_setup
    THEN [x |-> x, st |-> st, skipped |-> FALSE, raised |-> FALSE, mw |-> FALSE]
    ELSE LET x1 == [x EXCEPT !.logging_setup = TRUE]
             matched == Lower(cfg.env) = Lower("production")
             made == sdk /\ ctor       \* the library's handler was constructed
         IN IF k = "graylog" /\ matched /\ ~made        \* ImportError, ...
            THEN [x |-> x1, st |-> st, skipped |-> FALSE, raised |-> TRUE,
                  mw |-> FALSE]
            ELSE [x |-> x1,
                  st |-> AttachAll(st, <<AppLogger>> \o ls,
                                   IF matched /\ made THEN "net" ELSE "console"),
                  skipped |-> FALSE, raised |-> FALSE,
                  mw |-> (k = "graylog" /\ EnableMiddleware)]

\* _setup_logging on the extension state x and the logger state st
SetupLoggingUnguarded(k, x, cfg, st, ls, ctor, sdk) ==
    IF k \in SingleKinds THEN SetupSingleHandler(k, x, cfg, st, ls, ctor, sdk)
    ELSE IF ~x.app
    THEN [x |-> x, st |-> st, skipped |-> FALSE, raised |-> FALSE, mw |-> FALSE]
    ELSE LET x1 == [x EXCEPT !.config = [id |-> cfg.id],
                             !.logging_setup = (k \in {"azure", "ibm"})]
         IN IF GateSkips(k, cfg)
            THEN [x |-> x1, st |-> st, skipped |-> TRUE, raised |-> FALSE,
                  mw |-> FALSE]
            ELSE [x |-> x1,
                  st |-> ConfigureAll(k, x1, st, <<AppLogger>> \o ls, ctor),
                  skipped |-> FALSE, raised |-> FALSE,
                  mw |-> (k \in {"azure", "ibm"} /\ EnableMiddleware)]
SetupLogging(k, x, cfg, st, ls, ctor, sdk) ==
    IF k \in SingleKinds THEN SetupSingleHandler(k, x, cfg, st, ls, ctor, sdk)
    ELSE IF ~x.app
    THEN [x |-> x, st |-> st, skipped |-> FALSE, raised |-> FALSE, mw |-> FALSE]
    ELSE IF k \in {"azure", "ibm"} /\ x.logging_setup
    THEN [x |-> x, st |-> st, skipped |-> FALSE, raised |-> FALSE, mw |-> FALSE]
    ELSE LET x1 == [x EXCEPT !.config = [id |-> cfg.id],
                             !.logging_setup = (k \in {"azure", "ibm"})]
         IN IF GateSkips(k, cfg)
            THEN [x |-> x1, st |-> st, skipped |-> TRUE, raised |-> FALSE,
                  mw |-> FALSE]
            ELSE [x |-> x1,
                  st |-> ConfigureAll(k, x1, st, <<AppLogger>> \o ls, ctor),
                  skipped |-> FALSE, raised |-> FALSE,
                  mw |-> (k \in {"azure", "ibm"} /\ EnableMiddleware)]

\* _init_cloudwatch_client / _init_azure_config / _init_ibm_config /
\* _init_oci_config, as init_app calls it: how the client construction went
InitOutcomes(k) ==
    IF k \in {"aws", "oci"}
    THEN {"ok", "import_error", "sdk_error", "other_error"}
    ELSE IF k \in SingleKinds THEN {"ok"}       \* no client is built in init_app
    ELSE {"ok", "import_error"}

InitBackendIgnoresFailure(k, x, cfg, how) ==
    LET x0 == [x EXCEPT !.app = TRUE, !.config = [id |-> cfg.id]] IN
    IF k \in SingleKinds THEN x0
    ELSE IF k = "aws"
    THEN [x0 EXCEPT !.client = TRUE, !.ident1 = cfg.id, !.ident2 = cfg.id2]
    ELSE IF k = "oci" THEN [x0 EXCEPT !.client = TRUE]
    ELSE IF k = "azure" THEN [x0 EXCEPT !.ident1 = cfg.id, !.ident2 = cfg.id2]
    ELSE [x0 EXCEPT !.ident1 = cfg.id]
InitBackend(k, x, cfg, how) ==
    LET x0 == [x EXCEPT !.app = TRUE, !.config = [id |-> cfg.id]] IN
    IF k \in SingleKinds THEN x0
    ELSE IF how = "import_error" THEN x0              \* ImportError, caught
    ELSE IF k = "aws" THEN
        IF how = "ok"
        THEN [x0 EXCEPT !.client = TRUE, !.ident1 = cfg.id, !.ident2 = cfg.id2]
        ELSE IF how = "sdk_error" THEN [x0 EXCEPT !.client = FALSE]
        ELSE x0
    ELSE IF k = "oci" THEN
        [x0 EXCEPT !.client = (how = "ok")]
    ELSE IF k = "azure" THEN
        [x0 EXCEPT !.ident1 = cfg.id, !.ident2 = cfg.id2]
    ELSE [x0 EXCEPT !.ident1 = cfg.id]

\* the exception the _init_* call ends with inside init_app
InitError(k, how) ==
    IF how = "import_error" THEN (IF k = "aws" THEN "none" ELSE "ImportError")
    ELSE IF how = "other_error" /\ k = "aws" THEN "Exception"
    ELSE "none"

\* ImportError raised by the transports of the handlers of one logger when a
\* record is logged: `if not requests:` / `if not oci:` before the request
ImportErrors(k, sdk, hs) ==
    IF ~sdk /\ k \in {"azure", "ibm", "oci"}
    THEN Net(hs) + Direct(hs) ELSE 0

LoggerState == [handlers |-> handlers, level |-> level, calls |-> calls,
                configured |-> {}]

Room(n) == calls + n <= MaxConfigure

ExtInit ==
    /\ ekind \in HandlerKinds
    /\ additional_logs \in DistinctSeqs(LibLoggers, MaxAdditional)
    /\ appCfg \in AppConfigs(ekind)
    /\ ext = NewExt
    /\ handlers \in {[l \in Loggers |-> IF l = AppLogger THEN h ELSE <<>>] :
                        h \in {<<>>, <<"hostStream">>}}
    /\ level = [l \in Loggers |-> 0]
    /\ calls = 0
    /\ firstSetupFull = FALSE
    /\ last = NoLast
    /\ esdk \in BOOLEAN

HandlerAbsent ==
    /\ hkind = "aws" /\ hsdk = TRUE /\ keyOk = TRUE
    /\ sequence_token = None
    /\ pc = [t \in Threads |-> "idle"]
    /\ rec = [t \in Threads |-> 0]
    /\ built = [t \in Threads |-> FALSE]
    /\ payload = [t \in Threads |-> <<>>]
    /\ kwTok = [t \in Threads |-> None]
    /\ depth = [t \in Threads |-> 0]
    /\ hist = [t \in Threads |-> <<>>]
    /\ outcome = [t \in Threads |-> "none"]
    /\ herr = [t \in Threads |-> 0]
    /\ ret = [t \in Threads |-> "none"]
    /\ nextRec = 1
    /\ lastNext = None
    /\ staleSince = FALSE
    /\ dropped = {}

InitSetup == HandlerAbsent /\ ExtInit /\ BuilderAbsent /\ AppsAbsent

FullCredentials(k, x, cfg, ctor) ==
    /\ cfg.env = "production"
    /\ NetworkReady(k, x)
    /\ ctor

DevGate(cfg) == cfg.env = "development" /\ ~cfg.id

Apply(r, op, dev, full, how) ==
    /\ ext' = r.x
    /\ handlers' = r.st.handlers
    /\ level' = r.st.level
    /\ calls' = r.st.calls
    /\ firstSetupFull' = IF r.st.calls = calls THEN firstSetupFull
                         ELSE (calls = 0 /\ full)
    /\ last' = [NoLast EXCEPT !.op = op, !.skipped = r.skipped,
                              !.raised = r.raised,
                              !.middleware = r.mw,
                              !.configured = r.st.configured,
                              !.devGate = dev,
                              !.initHow = how,
                              !.initError = InitError(ekind, how),
                              !.before = handlers,
                              !.levelBefore = level]

\* init_app(app) on the extension state x and the logger state st: the
\* backend initialisation, and _setup_logging where init_app ends with it
InitApp(k, x, cfg, st, ls, how, ctor, sdk) ==
    LET x1 == InitBackend(k, x, cfg, how)
    IN IF k \in {"azure", "ibm", "graylog"}
       THEN SetupLogging(k, x1, cfg, st, ls, ctor, sdk)
       ELSE [x |-> x1, st |-> st, skipped |-> FALSE, raised |-> FALSE,
             mw |-> FALSE]

\* the application changes app.config
update_config ==
    /\ \E c \in AppConfigs(ekind) :
        /\ Cardinality({f \in {"env", "id", "id2"} : c[f] # appCfg[f]}) = 1
        /\ appCfg' = c
    /\ UNCHANGED <<hvars, bvars, avars, esdk, ekind, additional_logs, ext, handlers, level,
                   calls, firstSetupFull, last>>

\* init_app(app); the Azure, IBM and Graylog extensions end it with
\* _setup_logging
init_app ==
    /\ Room(1 + Len(additional_logs))
    /\ \E how \in InitOutcomes(ekind), ctor \in BOOLEAN :
        /\ ekind \in HandlerKinds => ((how = "import_error") <=> ~esdk)
        /\ LET r == InitApp(ekind, ext, appCfg, LoggerState, additional_logs,
                            how, ctor, esdk)
           IN Apply(r, "init_app", DevGate(appCfg),
                    FullCredentials(ekind, r.x, appCfg, ctor), how)
    /\ UNCHANGED <<hvars, bvars, avars, esdk, ekind, additional_logs, appCfg>>

\* _setup_logging()
setup_logging ==
    /\ Room(1 + Len(additional_logs))
    /\ \E ctor \in BOOLEAN :
        LET r == SetupLogging(ekind, ext, appCfg, LoggerState,
                              additional_logs, ctor, esdk)
        IN Apply(r, "setup", DevGate(appCfg),
                 FullCredentials(ekind, r.x, appCfg, ctor), "none")
    /\ UNCHANGED <<hvars, bvars, avars, esdk, ekind, additional_logs, appCfg>>

\* _configure_logger(logger, level) called on its own
configure_logger ==
    /\ ekind \in HandlerKinds
    /\ Room(1)
    /\ \E l \in Loggers, ctorOk \in BOOLEAN :
        LET r == [x |-> ext,
                  st |-> ConfigureLogger(ekind, ext, LoggerState, l, ctorOk),
                  skipped |-> FALSE, raised |-> FALSE, mw |-> FALSE]
        IN Apply(r, "configure", FALSE, FALSE, "none")
    /\ UNCHANGED <<hvars, bvars, avars, esdk, ekind, additional_logs, appCfg>>

\* logger.info(...): the record is handed to every handler of the logger
logger_log ==
    /\ \E l \in Loggers :
        last' = [NoLast EXCEPT !.op = "log", !.logger = l,
                               !.emits = Net(handlers[l]),
                               !.importErrors =
                                   ImportErrors(ekind, esdk, handlers[l]),
                               !.before = handlers, !.levelBefore = level]
    /\ UNCHANGED <<hvars, bvars, avars, esdk, ekind, additional_logs, appCfg, ext, handlers,
                   level, calls, firstSetupFull>>

\* the application builds a handler of the backend's class itself and adds
\* it to a logger it got from logging.getLogger(name):
\* logger.addHandler(OCILoggingHandler(client, log_id, ...))
add_handler ==
    /\ \E l \in LibLoggers :
        /\ Cardinality(UNION {{<<o, i>> : i \in {j \in DOMAIN handlers[o] :
                                                    handlers[o][j] = "direct"}} :
                               o \in Loggers}) < MaxDirect
        /\ handlers' = [handlers EXCEPT ![l] = Append(@, "direct")]
        /\ last' = [NoLast EXCEPT !.op = "add_handler", !.logger = l,
                                  !.before = handlers, !.levelBefore = level]
    /\ UNCHANGED <<hvars, bvars, avars, esdk, ekind, additional_logs, appCfg, ext,
                   level, calls, firstSetupFull>>

NextSetup ==
    \/ update_config
    \/ init_app
    \/ setup_logging
    \/ configure_logger
    \/ logger_log

SpecSetup == InitSetup /\ [][NextSetup]_vars

\* the binder in an application that also attaches handlers of its own and
\* leaves app.config as it was at start
NextDirect ==
    \/ add_handler
    \/ init_app
    \/ setup_logging
    \/ configure_logger
    \/ logger_log

InitDirect ==
    /\ HandlerAbsent /\ BuilderAbsent /\ AppsAbsent
    /\ ekind \in ExtensionKinds
    /\ additional_logs \in DistinctSeqs(LibLoggers, MaxAdditional)
    /\ appCfg \in AppConfigs(ekind)
    /\ ext = NewExt
    /\ handlers \in {[l \in Loggers |-> IF l = AppLogger THEN h ELSE <<>>] :
                        h \in {<<>>, <<"hostStream">>}}
    /\ level = [l \in Loggers |-> 0]
    /\ calls = 0
    /\ firstSetupFull = FALSE
    /\ last = NoLast
    /\ esdk \in BOOLEAN
    \* gcp_extension imports google.cloud.logging unconditionally
    /\ ekind = "gcp" => esdk

SpecDirect == InitDirect /\ [][NextDirect]_vars

\* ------------------------------------------ one extension and two apps
\* the applications an extension instance can be given; each has a logger of
\* its own (app.logger) and, built by one factory, the same configuration
Apps == {1, 2}

\* the loggers as self.app.logger and logging.getLogger see them when
\* self.app is the application a
View(a, st) ==
    IF a = 1 THEN st
    ELSE [st EXCEPT !.handlers[AppLogger] = app2.handlers,
                    !.level[AppLogger] = app2.level]
\* the first application's logger after a call that worked on View(a, st)
Unview(a, st) ==
    IF a = 1 THEN st
    ELSE [st EXCEPT !.handlers[AppLogger] = handlers[AppLogger],
                    !.level[AppLogger] = level[AppLogger]]
\* the second application's logger after that call
SecondLogger(a, st) ==
    IF a = 1 THEN app2
    ELSE [handlers |-> st.handlers[AppLogger], level |-> st.level[AppLogger]]

AppHandlers(a) == IF a = 1 THEN handlers[AppLogger] ELSE app2.handlers
AppLevel(a) == IF a = 1 THEN level[AppLogger] ELSE app2.level

\* init_app(a)
init_app_on(a) ==
    /\ Room(1 + Len(additional_logs))
    /\ \E how \in InitOutcomes(ekind), ctor \in BOOLEAN :
        /\ ekind \in HandlerKinds => ((how = "import_error") <=> ~esdk)
        /\ LET r == InitApp(ekind, ext, appCfg, View(a, LoggerState),
                            additional_logs, how, ctor, esdk)
           IN /\ Apply([r EXCEPT !.st = Unview(a, r.st)], "init_app",
                       DevGate(appCfg),
                       FullCredentials(ekind, r.x, appCfg, ctor), how)
              /\ app2' = SecondLogger(a, r.st)
    /\ boundApp' = a
    /\ UNCHANGED <<hvars, bvars, esdk, ekind, additional_logs, appCfg,
                   ctor_level, cfg_level, log_level, param_level, inits,
                   namespace, import_error>>

\* _setup_logging() on an extension whose self.app is boundApp
setup_logging_bound ==
    /\ Room(1 + Len(additional_logs))
    /\ \E ctor \in BOOLEAN :
        LET r == SetupLogging(ekind, ext, appCfg, View(boundApp, LoggerState),
                              additional_logs, ctor, esdk)
        IN /\ Apply([r EXCEPT !.st = Unview(boundApp, r.st)], "setup",
                    DevGate(appCfg),
                    FullCredentials(ekind, r.x, appCfg, ctor), "none")
           /\ app2' = SecondLogger(boundApp, r.st)
    /\ UNCHANGED <<hvars, bvars, esdk, ekind, additional_logs, appCfg,
                   boundApp, ctor_level, cfg_level, log_level, param_level,
                   inits, namespace, import_error>>

\* a.logger.info(...): the record is handed to every handler of the logger
app_log(a) ==
    /\ last' = [NoLast EXCEPT !.op = "log", !.logger = AppLogger,
                              !.emits = Net(AppHandlers(a)),
                              !.importErrors =
                                  ImportErrors(ekind, esdk, AppHandlers(a)),
                              !.before = handlers, !.levelBefore = level]
    /\ UNCHANGED <<hvars, bvars, avars, esdk, ekind, additional_logs, appCfg,
                   ext, handlers, level, calls, firstSetupFull>>

NextApps ==
    \/ \E a \in Apps : init_app_on(a)
    \/ setup_logging_bound
    \/ \E a \in Apps : app_log(a)

InitApps == InitDirect

SpecApps == InitApps /\ [][NextApps]_vars

\* ----------------------------------------------- properties of the binder
\* the last call ran _setup_logging (init_app of Azure and IBM ends with it)
RanSetup ==
    \/ last.op = "setup"
    \/ last.op = "init_app" /\ ekind \in {"azure", "ibm"}

\* ... on an extension bound to an app whose config has gate "development"
\* and no override identifier
DevSetup == RanSetup /\ last.devGate /\ ext.app

ConfiguredLoggers == {AppLogger} \cup {additional_logs[i] : i \in DOMAIN additional_logs}

\* a required client or identifier of the backend is absent
MissingIdentifier ==
    \/ ekind = "aws" /\ (~ext.client \/ ~ext.ident1 \/ ~ext.ident2)
    \/ ekind = "azure" /\ (~ext.ident1 \/ ~ext.ident2)
    \/ ekind = "ibm" /\ ~ext.ident1
    \/ ekind = "oci" /\ (~ext.client \/ ~ext.config.id)

\* C7 as stated: after _setup_logging under gate "development" with no
\* override identifier, no logger carries a network handler and the app logger
\* carries the console fallback handler.
C7_DevelopmentLeavesOnlyConsole ==
    DevSetup =>
        /\ \A l \in Loggers : Net(handlers[l]) = 0
        /\ Stream(handlers[AppLogger]) >= 1

\* C7 amended: _setup_logging under gate "development" with no override
\* identifier attaches nothing: no logger gains a network handler and no
\* logger gains a console handler.
C7_DevelopmentAttachesNothing ==
    DevSetup =>
        \A l \in Loggers :
            /\ Net(handlers[l]) = Net(last.before[l])
            /\ Stream(handlers[l]) = Stream(last.before[l])

C7_Witness ==
    /\ DevSetup /\ last.skipped
    /\ handlers[AppLogger] = <<>>

\* C8: _setup_logging under gate "development" with no override identifier
\* never invokes _configure_logger and changes no logger's level or handlers.
C8_DevelopmentConfiguresNoLogger ==
    DevSetup =>
        /\ last.configured = {}
        /\ level = last.levelBefore
        /\ handlers = last.before

C8_Witness ==
    /\ DevSetup /\ last.skipped
    /\ calls > 0 /\ \E l \in Loggers : level[l] = LogLevel

C10_MissingIdentifierFallsBackToConsole ==
    (last.op \in {"init_app", "setup", "configure"} /\ MissingIdentifier) =>
        /\ ~last.raised
        /\ \A l \in last.configured :
            /\ Net(handlers[l]) = Net(last.before[l])
            /\ Stream(handlers[l]) >= 1
            /\ last.before[l] = <<>> => handlers[l] = <<"console">>

C10_Witness ==
    /\ last.op = "setup" /\ MissingIdentifier
    /\ last.configured = Loggers
    /\ \E l \in last.configured : last.before[l] = <<>>

C17_ImportErrorNeverAtEmission ==
    /\ (last.op = "init_app" /\ ~esdk /\ ekind \in {"azure", "ibm", "oci"}) =>
            last.initError = "ImportError"
    /\ last.op = "log" => last.importErrors = 0

\* C17 amended: without the client library, init_app of Azure, IBM and OCI
\* meets ImportError in its _init_* call and contains it (AWS skips the client
\* without raising), and no extension attaches a network handler; so an
\* ImportError at emission arises exactly in the handlers the application
\* constructed and attached itself (Azure, IBM, OCI), once per such handler
\* and logged record.
C17_ImportErrorAtEmissionOnlyInDirectHandlers ==
    /\ (last.op = "init_app" /\ ~esdk /\ ekind \in HandlerKinds) =>
            /\ ~last.raised
            /\ last.initError = (IF ekind = "aws" THEN "none" ELSE "ImportError")
    /\ ~esdk => \A l \in Loggers : Net(handlers[l]) = 0
    /\ last.op = "log" =>
            last.importErrors =
                (IF ~esdk /\ ekind \in {"azure", "ibm", "oci"}
                 THEN Direct(handlers[last.logger]) ELSE 0)

C17_Witness ==
    /\ ~esdk /\ ekind = "oci" /\ ext.app /\ calls > 0
    /\ last.op = "log" /\ last.importErrors = 1

\* the backend client (AWS, OCI) or the identifier that stands for it
\* (Azure workspace_id, IBM ingestion_key) is None
ClientUnset ==
    IF ekind \in {"aws", "oci"} THEN ~ext.client ELSE ~ext.ident1

\* C18: when the backend initialisation inside init_app fails, init_app
\* returns normally, the backend client is None afterwards, and no logger has
\* gained a network handler.
C18_FailedInitLeavesClientUnset ==
    (last.op = "init_app" /\ last.initHow # "ok") =>
        /\ ~last.raised
        /\ ClientUnset
        /\ \A l \in Loggers : Net(handlers[l]) = Net(last.before[l])

IsPrefix(a, b) == Len(a) <= Len(b) /\ SubSeq(b, 1, Len(a)) = a

\* C20: no step of an extension, of a handler or of the application's own
\* addHandler removes a handler from a logger or replaces one: in every step
\* each logger's handler list keeps its entries and at most gains some at
\* the end.
C20_HandlersOnlyGrow ==
    [][\A l \in Loggers : IsPrefix(handlers[l], handlers'[l])]_vars

C20_Witness ==
    \E l \in Loggers :
        /\ last.op \in {"init_app", "setup", "configure"}
        /\ Len(last.before[l]) >= 2
        /\ Len(handlers[l]) > Len(last.before[l])

TypeOK ==
    /\ hkind \in HandlerKinds
    /\ sequence_token \in OptTokens
    /\ \A t \in Threads : Len(hist[t]) <= MaxDepth
\* ------------------------------------------------------------ properties
Last(s) == s[Len(s)]
IsHttpKind == hkind \in {"azure", "ibm"}
IsSingleShotKind == hkind \in {"azure", "ibm", "oci"}

\* C1: CloudWatchHandler makes at most two put_log_events calls for one emit,
\* whatever the backend answers: the first attempt and one retry after a
\* stale-token failure.
C1_AtMostTwoPutCalls ==
    hkind = "aws" => \A t \in Threads : Len(hist[t]) <= 2

\* C2: after InvalidSequenceTokenException the handler's token is cleared and
\* the retried request carries no sequenceToken; when the retry (the second
\* call) fails, the failure propagates out of _send_log_event.
C2_RetryClearsTokenAndSecondFailurePropagates ==
    hkind = "aws" =>
      \A t \in Threads :
        /\ (pc[t] = "call" /\ depth[t] >= 2) =>
              (kwTok[t] = None /\ sequence_token = None)
        /\ (pc[t] = "done" /\ Len(hist[t]) >= 2 /\ hist[t][2].kind # "ok") =>
              outcome[t] = "raised"

\* C3 as stated: every put_log_events request carries exactly the
\* nextSequenceToken of the most recent successful response (no token when
\* there was none).
C3_RequestCarriesLastResponseToken ==
    hkind = "aws" =>
      \A t \in Threads : pc[t] = "call" => kwTok[t] = lastNext

\* C3 amended: every put_log_events request carries the nextSequenceToken of
\* the most recent successful response, unless a request failed with
\* InvalidSequenceTokenException since that response: then it carries no token.
C3_RequestCarriesTokenUnlessStale ==
    hkind = "aws" =>
      \A t \in Threads :
        pc[t] = "call" =>
          kwTok[t] = (IF staleSince THEN None ELSE lastNext)

C3_Witness ==
    \E t \in Threads :
        /\ hkind = "aws" /\ pc[t] = "call" /\ rec[t] >= 2
        /\ kwTok[t] \in Tokens /\ kwTok[t] = lastNext

\* C4: an emit in which formatting, envelope building or delivery failed has
\* called handleError exactly once and returned normally, and the record is
\* dropped: no request of a later emit carries it.
C4_FailureHandledOnceAndDropped ==
    \A t \in Threads :
      /\ (pc[t] = "done" /\ (~built[t] \/ outcome[t] = "raised")) =>
            (herr[t] = 1 /\ ret[t] = "returned" /\ rec[t] \in dropped)
      /\ pc[t] \in {"send", "call", "resp"} =>
            \A i \in 1..Len(payload[t]) : payload[t][i] \notin dropped

C4_Witness ==
    \E t \in Threads :
        /\ pc[t] = "call" /\ dropped # {}
        /\ \E u \in dropped : u < rec[t]

\* C5 as stated: Azure, IBM and OCI handlers make exactly one network call in
\* every emit whose envelope was built.
C5_ExactlyOneCallPerBuiltEnvelope ==
    IsSingleShotKind =>
      \A t \in Threads :
        (pc[t] = "done" /\ built[t]) => Len(hist[t]) = 1

\* C5 amended: Azure, IBM and OCI handlers make at most one network call per
\* emit and never retry; the call is made exactly when the envelope was built
\* and the transport could prepare the request (client library imported, and
\* for Azure the workspace key decodes).
C5_OneCallWhenRequestPrepared ==
    IsSingleShotKind =>
      \A t \in Threads :
        /\ Len(hist[t]) <= 1
        /\ pc[t] = "done" =>
             (Len(hist[t]) = 1 <=>
                (built[t] /\ hsdk /\ (hkind = "azure" => keyOk)))

C5_Witness ==
    \E t \in Threads :
        /\ IsSingleShotKind /\ pc[t] = "done" /\ built[t]
        /\ Len(hist[t]) = 1 /\ outcome[t] = "raised"

\* C6: for Azure and IBM a delivery succeeds exactly when the HTTP status is
\* 200 or 202; any other status or a transport exception makes _send_log_data
\* raise, and emit then reports it through handleError.
C6_SuccessIffStatus200Or202 ==
    IsHttpKind =>
      \A t \in Threads :
        (pc[t] \in {"ok", "fail", "done"} /\ Len(hist[t]) = 1) =>
          /\ outcome[t] = "ok" <=>
               (hist[t][1].kind = "http" /\ hist[t][1].status \in {200, 202})
          /\ outcome[t] # "ok" => outcome[t] = "raised"
          /\ (pc[t] = "done" /\ outcome[t] = "raised") =>
               (herr[t] = 1 /\ ret[t] = "returned")

C6_Witness ==
    \E t \in Threads :
        /\ IsHttpKind /\ pc[t] = "done" /\ Len(hist[t]) = 1
        /\ hist[t][1].kind = "http" /\ hist[t][1].status = 201
        /\ herr[t] = 1

GuardedKinds == {"graylog", "gcp", "azure", "ibm"}

\* what a step does to an extension guarded by _logging_setup
GuardedStep ==
    ekind \in GuardedKinds =>
        /\ ext.logging_setup => ext'.logging_setup
        /\ (last'.op = "setup" /\ ext.app) => ext'.logging_setup
        /\ (last'.op = "setup" /\ ext.logging_setup) =>
              /\ handlers' = handlers
              /\ level' = level
              /\ ~last'.middleware

\* C23: _setup_logging of the Graylog, GCP, Azure and IBM extensions is
\* idempotent per instance: a call on an instance with an app leaves
\* _logging_setup set, nothing clears it, and every call made while it is set
\* adds no handler to any logger, changes no logger level and registers no
\* middleware.
C23_SetupLoggingIdempotent ==
    [][GuardedStep]_vars

\* a later _setup_logging call has returned on an extension whose first call
\* attached the network handler
C23_Witness ==
    /\ ekind \in GuardedKinds /\ last.op = "setup" /\ ext.logging_setup
    /\ Net(handlers[AppLogger]) = 1
    /\ handlers = last.before /\ level = last.levelBefore

\* the step in which _setup_logging of a Graylog or GCP extension ran for the
\* first time on an instance with an app
FirstSingleSetup ==
    ekind \in SingleKinds /\ ~ext.logging_setup /\ ext'.logging_setup
\* app.env equals the configured environment, compared case-insensitively
EnvMatches == Lower(appCfg.env) = "production"
\* every configured logger gained the handler h at the end of its list, and
\* no other logger changed
AttachedToAll(h) ==
    \A l \in Loggers :
        handlers'[l] = IF l \in ConfiguredLoggers THEN Append(handlers[l], h)
                       ELSE handlers[l]

FirstSetupAttachesOne ==
    FirstSingleSetup =>
        \E h \in {"net", "console"} :
            /\ AttachedToAll(h)
            /\ h = "net" => EnvMatches
            /\ (ekind = "graylog" /\ EnvMatches) => h = "net"

FirstSetupAttachesOneOrRaises ==
    FirstSingleSetup =>
        IF last'.raised
        THEN ekind = "graylog" /\ EnvMatches /\ handlers' = handlers
        ELSE /\ ~(ekind = "graylog" /\ EnvMatches /\ ~esdk)
             /\ \E h \in {"net", "console"} :
                    /\ AttachedToAll(h)
                    /\ h = "net" => (EnvMatches /\ esdk)
                    /\ (ekind = "graylog" /\ EnvMatches) => h = "net"

\* C24 as stated: the first _setup_logging of a Graylog or GCP extension
\* attaches exactly one handler to the app logger and the same one to every
\* logger of additional_logs: the network handler when app.env equals the
\* configured environment whatever the case (and, for GCP, the client could be
\* built), otherwise a StreamHandler; never both and never none.
C24_FirstSetupAttachesExactlyOneHandler ==
    [][FirstSetupAttachesOne]_vars

\* C24 amended: as stated, except that GraylogExtension in a matching
\* environment attaches nothing and raises when the GELF handler cannot be
\* made: ImportError when pygelf is not installed, or the exception of the
\* GelfTcpHandler constructor.
C24_FirstSetupAttachesOneHandlerOrRaises ==
    [][FirstSetupAttachesOneOrRaises]_vars

\* a Graylog extension whose app.env is "Production" has put its GELF handler
\* on the app logger and on the logger of additional_logs
C24_Witness ==
    /\ ekind = "graylog" /\ appCfg.env = "Production" /\ ext.logging_setup
    /\ additional_logs # <<>>
    /\ \A l \in ConfiguredLoggers : Net(handlers[l]) = 1 /\ Stream(handlers[l]) = 0

\* C25: Azure and IBM extensions: a _setup_logging call made on an initialised
\* extension while the app configuration enables the backend (gate not
\* "development", or the identifier present) leaves the loggers configured,
\* also when init_app ran under the "development" gate and the configuration
\* was changed afterwards.
C25_UpdatedConfigTakesEffect ==
    (ekind \in {"azure", "ibm"} /\ last.op = "setup" /\ ext.app
        /\ ~GateSkips(ekind, appCfg)) =>
        \A l \in ConfiguredLoggers :
            level[l] = LogLevel /\ handlers[l] # <<>>

\* the console handlers the extension's _configure_logger added
Console(hs) == Cardinality({i \in DOMAIN hs : hs[i] = "console"})

\* C28: _configure_logger of the AWS, Azure, IBM and OCI extensions adds its
\* console StreamHandler to a logger only when the logger carries no
\* StreamHandler at that moment, so whatever calls were made each logger has
\* at most one console handler from the extension.
C28_ConsoleOnlyWhenNoStreamHandler ==
    ekind \in HandlerKinds =>
        \A l \in Loggers :
            /\ Console(handlers[l]) <= 1
            /\ Console(handlers[l]) > Console(last.before[l]) =>
                    Stream(last.before[l]) = 0

\* _configure_logger has run again on a logger that already had the console
\* handler from an earlier call, and added a network handler only
C28_Witness ==
    \E l \in Loggers :
        /\ ekind \in HandlerKinds /\ l \in last.configured
        /\ Console(last.before[l]) = 1 /\ Console(handlers[l]) = 1
        /\ Len(handlers[l]) > Len(last.before[l])

\* C27: AWS and OCI extensions with a ready client and identifiers: however
\* many _setup_logging calls were made on the instance, the logger of its app
\* carries one network handler of the extension and not one per call, and a
\* record logged on it is delivered once.
C27_RepeatedSetupKeepsOneNetworkHandler ==
    (ekind \in {"aws", "oci"} /\ NetworkReady(ekind, ext)) =>
        /\ \A a \in Apps : Net(AppHandlers(a)) <= 1
        /\ last.op = "log" => last.emits <= 1

\* C30: Graylog, Azure and IBM extensions: after init_app(app) has returned
\* (for Azure and IBM: with a configuration that enables the backend) the
\* logger of that app is configured by the extension: it has the extension's
\* level and carries a handler, also when the instance was given another app
\* before.
C30_EveryAppGetsTheHandler ==
    (ekind \in {"graylog", "azure", "ibm"} /\ last.op = "init_app"
        /\ ~last.raised
        /\ (ekind \in {"azure", "ibm"} => ~GateSkips(ekind, appCfg))) =>
        /\ AppLevel(boundApp) = LogLevel
        /\ AppHandlers(boundApp) # <<>>

\* ====================================================== the log level
MaxInits == 2       \* init_app calls on one Graylog / GCP extension

\* logging.DEBUG, logging.INFO, logging.WARNING
Levels == {10, LogLevel, 30}

\* dict.get(key, default)
Get(d, key, default) == IF key \in DOMAIN d THEN d[key] ELSE default

\* _get_config_from_app: the entry it makes for the level,
\* self.app.config.get("GRAYLOG_LOG_LEVEL", logging.INFO)
ConfigFromApp(cfg) ==
    [LOG_LEVEL |-> IF cfg = <<>> THEN LogLevel ELSE cfg[1]]

\* self.log_level after init_app(app, log_level = param) on an extension whose
\* log_level is own
InitAppLogLevel(own, param, cfg) ==
    LET own1 == IF param # LogLevel THEN param ELSE own
        config == ConfigFromApp(cfg)
    IN IF param # LogLevel THEN param
       ELSE Get(config, "LOG_LEVEL", own1)

\* GraylogExtension(log_level = c) or GCPLogExtension(log_level = c), built
\* without an app, and the app it will be given
InitLevel ==
    /\ HandlerAbsent /\ BuilderAbsent /\ SecondAppAbsent /\ PackageInit
    /\ ekind \in SingleKinds
    /\ additional_logs = <<>>
    /\ appCfg = EmptyConfig
    /\ ext = NewExt
    /\ handlers = [l \in Loggers |-> <<>>]
    /\ level = [l \in Loggers |-> 0]
    /\ calls = 0
    /\ firstSetupFull = FALSE
    /\ last = NoLast
    /\ esdk = TRUE
    /\ ctor_level \in Levels
    /\ cfg_level \in {<<>>} \cup {<<v>> : v \in Levels}
    /\ log_level = ctor_level
    /\ param_level = LogLevel
    /\ inits = 0

\* init_app(app, log_level = p), as far as self.log_level goes
init_app_level ==
    /\ inits < MaxInits
    /\ \E p \in Levels :
        /\ log_level' = InitAppLogLevel(log_level, p, cfg_level)
        /\ param_level' = p
    /\ inits' = inits + 1
    /\ UNCHANGED <<hvars, evars, bvars, boundApp, app2, ctor_level, cfg_level,
                   namespace, import_error>>

NextLevel == init_app_level

SpecLevel == InitLevel /\ [][NextLevel]_vars

\* C26: a Graylog or GCP extension built without an app and with a log level
\* other than INFO keeps that level through init_app(app) called without
\* log_level on an app whose config has no GRAYLOG_LOG_LEVEL / GCP_LOG_LEVEL.
C26_ConstructorLevelKept ==
    (inits = 1 /\ ctor_level # LogLevel /\ param_level = LogLevel
        /\ cfg_level = <<>>) =>
        log_level = ctor_level

\* a delivery failure that is not InvalidSequenceTokenException
OtherFailure(r) == r.kind \in {"ClientError", "transport"}

\* after such a failure the handler's token is the one the failed request
\* carried, and a request carries the handler's token of the time it is made
TokenKept ==
    hkind = "aws" =>
        \A t \in Threads :
            /\ (pc[t] \in {"fail", "done"} /\ hist[t] # <<>>
                    /\ OtherFailure(Last(hist[t]))) =>
                  sequence_token = kwTok[t]
            /\ pc[t] = "call" => kwTok[t] = sequence_token

\* the token changes only where a response is handled
TokenChangesOnResponseOnly ==
    (\A t \in Threads : pc[t] # "resp") => sequence_token' = sequence_token

\* C29: a CloudWatch delivery that fails with an error other than
\* InvalidSequenceTokenException leaves sequence_token as it was, the token the
\* failed request carried; nothing changes it until the next response, so the
\* request of the next emit carries that same token.
C29_OtherFailureKeepsToken ==
    []TokenKept /\ [][TokenChangesOnResponseOnly]_vars

\* a later record's delivery has failed with ClientError and the handler
\* still holds the token the failed request carried
C29_Witness ==
    \E t \in Threads :
        /\ hkind = "aws" /\ pc[t] = "done" /\ rec[t] >= 2
        /\ Len(hist[t]) = 1 /\ hist[t][1].kind = "ClientError"
        /\ kwTok[t] \in Tokens /\ sequence_token = kwTok[t]

\* ================================================================ package
MaxImports == 3     \* names in one `from flask_network_logging import ...`

\* the classes the modules of the package define
ExtensionClasses == {"GraylogExtension", "GCPLogExtension", "AWSLogExtension",
                     "AzureLogExtension", "IBMLogExtension", "OCILogExtension"}
\* the alias the tests expect for each extension class
AliasOf(c) ==
    CASE c = "GraylogExtension" -> "Graylog"
      [] c = "GCPLogExtension" -> "GCPLog"
      [] c = "AWSLogExtension" -> "AWSLog"
      [] c = "AzureLogExtension" -> "AzureLog"
      [] c = "IBMLogExtension" -> "IBMLog"
      [] c = "OCILogExtension" -> "OCILog"
\* `from .<module> import <class>` in the package's __init__
ImportedClasses == {"GraylogExtension", "GCPLogExtension", "AWSLogExtension",
                    "AzureLogExtension", "IBMLogExtension"}
\* the attributes of the package after its __init__ ran: the imported classes
\* under their own names and the aliases assigned from them
PackageDict ==
    [n \in ImportedClasses |-> n] @@
    [a \in {AliasOf(c) : c \in ImportedClasses} |->
        CHOOSE c \in ImportedClasses : AliasOf(c) = a] @@
    [n \in {"GraylogContextFilter", "FlaskNetworkLoggingContextFilter",
            "FNLContextFilter"} |-> "GraylogContextFilter"]
\* the names an importing module may ask for
RequestedNames == ExtensionClasses \cup {AliasOf(c) : c \in ExtensionClasses}
                    \cup {"GraylogContextFilter", "FNLContextFilter"}

\* one name of `from flask_network_logging import a, b, ...`: bound in the
\* importing module, or ImportError, which ends the statement
import_name ==
    /\ import_error = None
    /\ Cardinality(DOMAIN namespace) < MaxImports
    /\ \E n \in RequestedNames \ DOMAIN namespace :
        IF n \in DOMAIN PackageDict
        THEN /\ namespace' = (n :> PackageDict[n]) @@ namespace
             /\ UNCHANGED import_error
        ELSE /\ import_error' = n
             /\ UNCHANGED namespace
    /\ UNCHANGED <<hvars, evars, bvars, boundApp, app2, ctor_level, cfg_level,
                   log_level, param_level, inits>>

InitPackage == HandlerAbsent /\ ExtAbsent /\ BuilderAbsent /\ AppsAbsent

NextPackage == import_name

SpecPackage == InitPackage /\ [][NextPackage]_vars

\* C22: the package exports the six extension classes and their aliases: each
\* of the twelve names can be imported from the package, and each alias is
\* bound to the class of its extension.
C22_ExportsSixExtensionsAndAliases ==
    /\ import_error \notin RequestedNames
    /\ \A c \in ExtensionClasses :
          /\ c \in DOMAIN namespace => namespace[c] = c
          /\ AliasOf(c) \in DOMAIN namespace => namespace[AliasOf(c)] = c

\* ====================================================== envelope builders
MaxExtras == 2      \* extra attributes set on one record

\* record.levelname: the five standard names, one in lower case as
\* logging.addLevelName allows, and one custom name
LevelNames == {"DEBUG", "INFO", "WARNING", "ERROR", "CRITICAL", "warning",
               "TRACE"}
\* format strings: the one of the tests, a short one, the extensions' default
Templates == {"%(message)s", "%(levelname)s: %(message)s",
              "%(asctime)s - %(name)s - %(levelname)s - %(message)s"}
\* record.args: None, (), a tuple of strings, a tuple holding an object
ArgsValues == {NoneV, V("tuple", "()"), V("tuple", "('a',)"),
               V("objtuple", "(<object>,)")}
ExtraKeys == {"request_id", "custom", "_private"}
ExtraValues == {V("str", "abc"), V("object", "<object>"), NoneV}

\* str(value)
StrOf(x) == V("str", x.v)
\* json.dumps(value) does not raise TypeError
Serializable(x) == x.t \notin {"object", "objtuple"}
\* the value json.loads gives back for json.dumps(value)
JsonOf(x) == IF x.t = "tuple" THEN V("list", x.v) ELSE x
\* key.startswith("_")
Private(k) == k \in {"_private"}
\* str.upper()
Upper(s) == IF s = "warning" THEN "WARNING" ELSE s

\* the attributes logging.LogRecord.__init__ sets
StdKeys == {"name", "msg", "args", "levelname", "levelno", "pathname",
            "filename", "module", "exc_info", "exc_text", "stack_info",
            "lineno", "funcName", "created", "msecs", "relativeCreated",
            "thread", "threadName", "processName", "process"}

\* record.getMessage(): msg % args when there are args
GetMessage(r) ==
    IF r.args.t \in {"NoneType"} \/ r.args.v = "()" THEN "hello"
    ELSE "hello " \o r.args.v

\* logging.Formatter.usesTime()
UsesTime(tpl) == tpl = "%(asctime)s - %(name)s - %(levelname)s - %(message)s"

\* the string self.format(record) returns
Format(tpl, r) ==
    IF tpl = "%(message)s" THEN GetMessage(r)
    ELSE IF tpl = "%(levelname)s: %(message)s"
    THEN r.levelname \o ": " \o GetMessage(r)
    ELSE "<asctime> - test - " \o r.levelname \o " - " \o GetMessage(r)

\* record.__dict__ once self.format(record) has run: the formatter stores
\* record.message, and record.asctime when the format string uses it
RecordDict(tpl, r) ==
    LET std == [k \in StdKeys |->
                  IF k = "levelname" THEN V("str", r.levelname)
                  ELSE IF k = "args" THEN r.args
                  ELSE IF k \in {"exc_info", "exc_text", "stack_info"} THEN NoneV
                  ELSE IF k \in {"levelno", "lineno", "thread", "process"}
                  THEN V("int", k)
                  ELSE IF k \in {"created", "msecs", "relativeCreated"}
                  THEN V("float", k)
                  ELSE V("str", k)]
        fromFormat == [k \in {"message"} \cup
                             (IF UsesTime(tpl) THEN {"asctime"} ELSE {}) |->
                         IF k = "message" THEN V("str", GetMessage(r))
                         ELSE V("str", "<asctime>")]
    IN fromFormat @@ r.extras @@ std

\* IBMCloudLogHandler._map_log_level
IBMMapLogLevelUpper(python_level) ==
    LET u == Upper(python_level) IN
    IF u = "DEBUG" THEN "Debug"
    ELSE IF u = "INFO" THEN "Info"
    ELSE IF u = "WARNING" THEN "Warn"
    ELSE IF u = "ERROR" THEN "Error"
    ELSE IF u = "CRITICAL" THEN "Fatal"
    ELSE "Info"
IBMMapLogLevel(python_level) ==
    IF python_level = "DEBUG" THEN "Debug"
    ELSE IF python_level = "INFO" THEN "Info"
    ELSE IF python_level = "WARNING" THEN "Warn"
    ELSE IF python_level = "ERROR" THEN "Error"
    ELSE IF python_level = "CRITICAL" THEN "Fatal"
    ELSE "Info"

\* OCILoggingHandler._map_log_level: the lookup is on level.upper()
OCIMapLogLevel(lvl) ==
    LET u == Upper(lvl) IN
    IF u = "DEBUG" THEN "DEBUG"
    ELSE IF u = "INFO" THEN "INFO"
    ELSE IF u = "WARNING" THEN "WARN"
    ELSE IF u = "ERROR" THEN "ERROR"
    ELSE IF u = "CRITICAL" THEN "FATAL"
    ELSE "INFO"

\* the keys each builder's loop over record.__dict__ leaves out
AzureExcluded == {"name", "msg", "args", "levelname", "levelno", "pathname",
                  "filename", "module", "lineno", "funcName", "created",
                  "msecs", "relativeCreated", "thread", "threadName",
                  "processName", "process", "getMessage", "stack_info",
                  "exc_info", "exc_text"}
IBMExcluded == AzureExcluded
OCIExcluded == {"name", "msg", "args", "levelname", "levelno", "pathname",
                "filename", "module", "lineno", "funcName", "created",
                "msecs", "relativeCreated", "thread", "threadName",
                "processName", "process", "message"}
\* the request context attributes OCI copies first
OCIContextAttrs == {"request_id", "user_id", "username", "ip_address",
                    "user_agent", "endpoint", "method", "url", "args", "form",
                    "json"}

Envelope(top, hasNested, nested) ==
    [raised |-> FALSE, top |-> top, hasNested |-> hasNested, nested |-> nested]

\* CloudWatchHandler.emit: log_event
AWSLogEvent(d, msg) ==
    Envelope([timestamp |-> V("int", "created*1000"),
              message |-> V("str", msg)], FALSE, <<>>)

\* AzureMonitorHandler.emit: log_data
AzureLogData(d, msg) ==
    LET base == [timestamp |-> V("str", "created-iso"),
                 level |-> d["levelname"],
                 logger |-> d["name"],
                 message |-> V("str", msg),
                 module |-> d["module"],
                 function |-> d["funcName"],
                 line |-> d["lineno"],
                 thread |-> d["thread"],
                 process |-> d["process"]]
        keys == {k \in DOMAIN d : k \notin AzureExcluded /\ ~Private(k)}
        extra == [k \in keys |->
                    IF d[k].t # "NoneType" THEN StrOf(d[k]) ELSE d[k]]
    IN Envelope(extra @@ base, FALSE, <<>>)

\* IBMCloudLogHandler.emit: log_line with its meta
IBMLogLine(d, msg) ==
    LET top == [timestamp |-> V("int", "created*1000"),
                line |-> V("str", msg),
                app |-> V("str", "app_name"),
                level |-> V("str", IBMMapLogLevel(d["levelname"].v)),
                env |-> V("str", "env")]
        keys == {k \in DOMAIN d : /\ k \notin IBMExcluded
                                  /\ ~Private(k)
                                  /\ d[k].t # "NoneType"}
        meta == [k \in keys |->
                    IF Serializable(d[k]) THEN d[k] ELSE StrOf(d[k])]
        std == [module |-> d["module"],
                function |-> d["funcName"],
                line |-> d["lineno"],
                thread |-> d["thread"],
                process |-> d["process"]]
    IN Envelope(top, TRUE, std @@ meta)

\* OCILoggingHandler._create_log_entry: extra_fields
OCIExtraFields(d) ==
    LET ctx == {k \in OCIContextAttrs \cap DOMAIN d : d[k].t # "NoneType"}
        keys == {k \in DOMAIN d : /\ k \notin OCIExcluded
                                  /\ ~Private(k)
                                  /\ d[k].t # "NoneType"}
    IN [k \in keys |-> StrOf(d[k])] @@ [k \in ctx |-> d[k]]

\* OCILoggingHandler._create_log_entry: log_entry
OCILogEntry(d, msg) ==
    LET base == [timestamp |-> V("str", "created-iso"),
                 message |-> V("str", msg),
                 source |-> V("str", "source"),
                 hostname |-> V("str", "hostname"),
                 level |-> d["levelname"],
                 logger |-> d["name"]]
        extra_fields == OCIExtraFields(d)
    IN IF DOMAIN extra_fields = {} THEN Envelope(base, FALSE, <<>>)
       ELSE IF \A k \in DOMAIN extra_fields : Serializable(extra_fields[k])
       THEN Envelope(base, TRUE,
                     [k \in DOMAIN extra_fields |-> JsonOf(extra_fields[k])])
       ELSE [NoEnvelope EXCEPT !.raised = TRUE]       \* TypeError of json.dumps

BuildEnvelope(k, d, msg) ==
    IF k = "aws" THEN AWSLogEvent(d, msg)
    ELSE IF k = "azure" THEN AzureLogData(d, msg)
    ELSE IF k = "ibm" THEN IBMLogLine(d, msg)
    ELSE OCILogEntry(d, msg)

\* the records an application can log: at most MaxExtras extra attributes
Records ==
    {[levelname |-> n, args |-> a, extras |-> x] :
        n \in LevelNames, a \in ArgsValues,
        x \in UNION {[K -> ExtraValues] :
                        K \in {S \in SUBSET ExtraKeys :
                                  Cardinality(S) <= MaxExtras}}}

BuilderInit ==
    /\ bkind \in HandlerKinds
    /\ fmt \in Templates
    /\ record \in Records
    /\ bpc = "new"
    /\ message = ""
    /\ envelope = NoEnvelope
    /\ mapped = ""

InitEnvelope == HandlerAbsent /\ ExtAbsent /\ BuilderInit /\ AppsAbsent

\* emit up to the transport call: self.format(record), then the envelope
create_envelope ==
    /\ bpc = "new"
    /\ message' = Format(fmt, record)
    /\ envelope' = BuildEnvelope(bkind, RecordDict(fmt, record),
                                 Format(fmt, record))
    /\ bpc' = "built"
    /\ UNCHANGED <<hvars, evars, avars, bkind, fmt, record, mapped>>

\* handler._map_log_level(record.levelname)
map_log_level ==
    /\ bpc = "new"
    /\ bkind \in {"ibm", "oci"}
    /\ mapped' = IF bkind = "ibm" THEN IBMMapLogLevel(record.levelname)
                 ELSE OCIMapLogLevel(record.levelname)
    /\ bpc' = "mapped"
    /\ UNCHANGED <<hvars, evars, avars, bkind, fmt, record, message, envelope>>

NextEnvelope ==
    \/ create_envelope
    \/ map_log_level

SpecEnvelope == InitEnvelope /\ [][NextEnvelope]_vars

\* ------------------------------------------- properties of the envelopes
StandardLevels == {"DEBUG", "INFO", "WARNING", "ERROR", "CRITICAL"}
IBMTokens == [DEBUG |-> "Debug", INFO |-> "Info", WARNING |-> "Warn",
              ERROR |-> "Error", CRITICAL |-> "Fatal"]
OCITokens == [DEBUG |-> "DEBUG", INFO |-> "INFO", WARNING |-> "WARN",
              ERROR |-> "ERROR", CRITICAL |-> "FATAL"]
Built == bpc = "built" /\ ~envelope.raised

\* C11 as stated: _map_log_level of the IBM and OCI handlers maps each of the
\* five standard level names to its backend token, and every other level name
\* to the default token (Info / INFO).
C11_OtherNamesMapToDefault ==
    bpc = "mapped" =>
        LET n == record.levelname
            tokens == IF bkind = "ibm" THEN IBMTokens ELSE OCITokens
        IN mapped = (IF n \in StandardLevels THEN tokens[n] ELSE tokens["INFO"])

\* C11 amended: _map_log_level is total; the IBM handler looks the name up as
\* it is, the OCI handler looks up the upper-cased name; a name that the
\* lookup does not find maps to the default token (Info / INFO).
C11_MappingLooksUpUpperCasedNameForOCI ==
    bpc = "mapped" =>
        LET n == IF bkind = "ibm" THEN record.levelname
                 ELSE Upper(record.levelname)
            tokens == IF bkind = "ibm" THEN IBMTokens ELSE OCITokens
        IN mapped = (IF n \in StandardLevels THEN tokens[n] ELSE tokens["INFO"])

C11_Witness ==
    /\ bpc = "mapped" /\ bkind = "oci"
    /\ record.levelname = "warning" /\ mapped = "WARN"

\* C12: in every envelope with a severity field the severity is the record's
\* level mapped through the backend's table; the OCI log entry has level
\* _map_log_level(record.levelname).
C12_SeverityIsMappedLevel ==
    (Built /\ bkind \in {"ibm", "oci"}) =>
        envelope.top["level"].v =
            (IF bkind = "ibm" THEN IBMMapLogLevel(record.levelname)
             ELSE OCIMapLogLevel(record.levelname))

MessageKey(k) == IF k = "ibm" THEN "line" ELSE "message"

\* C13: the message field of every envelope holds the string the handler's
\* formatter produced for the record.
C13_MessageIsFormattedRecord ==
    Built => envelope.top[MessageKey(bkind)] = V("str", Format(fmt, record))

AWSBaseKeys == {"timestamp", "message"}
AzureBaseKeys == {"timestamp", "level", "logger", "message", "module",
                  "function", "line", "thread", "process"}
IBMStdMeta == {"module", "function", "line", "thread", "process"}
OCIBaseKeys == {"timestamp", "message", "source", "hostname", "level",
                "logger"}
Reserved(k) ==
    IF k = "azure" THEN AzureExcluded
    ELSE IF k = "ibm" THEN IBMExcluded
    ELSE OCIExcluded
\* the part of the envelope that holds the extra fields
ExtrasOf(k, e) ==
    IF k = "azure"
    THEN [key \in DOMAIN e.top \ AzureBaseKeys |-> e.top[key]]
    ELSE IF k = "ibm"
    THEN [key \in DOMAIN e.nested \ IBMStdMeta |-> e.nested[key]]
    ELSE e.nested

\* C14: Azure, IBM and OCI: every extra field of the record whose key is not
\* reserved appears among the envelope's extras with its value or the string
\* of its value, and no reserved key appears among the extras.
C14_ExtrasCopiedReservedExcluded ==
    (Built /\ bkind \in {"azure", "ibm", "oci"}) =>
        LET ex == ExtrasOf(bkind, envelope) IN
        /\ \A k \in DOMAIN record.extras \ Reserved(bkind) :
              /\ k \in DOMAIN ex
              /\ ex[k] \in {record.extras[k], StrOf(record.extras[k])}
        /\ \A k \in DOMAIN ex : k \notin Reserved(bkind)

\* C15: the envelope of a record without extra fields has exactly the base
\* fields of the backend; the OCI entry has no "extra" key.
C15_NoExtrasGivesBaseFieldsOnly ==
    (Built /\ DOMAIN record.extras = {}) =>
        /\ bkind = "aws" => DOMAIN envelope.top = AWSBaseKeys
        /\ bkind = "azure" => DOMAIN envelope.top = AzureBaseKeys
        /\ bkind = "oci" =>
              (DOMAIN envelope.top = OCIBaseKeys /\ ~envelope.hasNested)

\* C16: building the envelope never raises, whatever the types of the
\* record's args and extra fields.
C16_BuildingNeverRaises ==
    bpc = "built" => ~envelope.raised
====
